---- MODULE Spec2Model ----
(***************************************************************************)
(* A model of vigenere-cracker.py: the Cipher Transform (vigenere_decrypt), *)
(* the Frequency Scorer (score_text), the Key-Length Estimator              *)
(* (find_key_length) and the Key Recoverer (find_key).                      *)
(*                                                                         *)
(* Characters are their code points (ord), strings are sequences of code   *)
(* points; a Python index p is the sequence index p + 1.                    *)
(* Scores are exact rationals num/den: the percentages of eng_freq are     *)
(* kept in hundredths and the text frequencies over the common denominator *)
(* total_letters, so den = 100 * total_letters.                            *)
(***************************************************************************)
EXTENDS Integers, Sequences, FiniteSets, TLC

VARIABLES
    pc,           \* position of the run: which call is pending or finished
    ciphertext,   \* argument of vigenere_decrypt, find_key_length, find_key
    key,          \* argument of vigenere_decrypt; the key find_key builds
    key_length,   \* argument of find_key
    max_length,   \* argument of find_key_length
    text,         \* argument of score_text
    plaintext,    \* value returned by vigenere_decrypt
    err,          \* the exception that ended the call, or "none"
    i,            \* find_key: the offset of the outer loop
    shift,        \* find_key: the shift of the inner loop
    best_score,   \* find_key: best score of the current offset
    best_shift,   \* find_key: best shift of the current offset
    decrypted,    \* find_key: per finished offset, the stream that scored best
    cur_decrypted,\* find_key: the stream that scored best so far at offset i
    counts,       \* find_key_length: dict dist -> count, in insertion order
    factors,      \* find_key_length: dict factor -> weight, in insertion order
    lengths,      \* value returned by find_key_length
    score         \* value returned by score_text

vars == <<pc, ciphertext, key, key_length, max_length, text, plaintext, err, i,
          shift, best_score, best_shift, decrypted, cur_decrypted, counts,
          factors, lengths, score>>

(***************************************************************************)
(* Bounds of the model.                                                    *)
(***************************************************************************)
MaxCipherLen == 4     \* vigenere_decrypt: longest enumerated ciphertext
MaxKeyLen == 2        \* vigenere_decrypt: longest enumerated key

(***************************************************************************)
(* Characters.                                                             *)
(***************************************************************************)
ord_A == 65
ord_a == 97
AlphabetSize == 26

isupper(c) == c \in 65..90
islower(c) == c \in 97..122
isalpha(c) == isupper(c) \/ islower(c)
upper(c) == IF islower(c) THEN c - 32 ELSE c

Strings(alphabet, n) == UNION {[1..k -> alphabet] : k \in 0..n}

RECURSIVE upper_str(_)
upper_str(s) == IF s = <<>> THEN <<>> ELSE <<upper(Head(s))>> \o upper_str(Tail(s))

(***************************************************************************)
(* vigenere_decrypt                                                        *)
(***************************************************************************)
\* a key base that ignores the case of the key character
key_shift_upper_only(key_char) == ord_A

\* lines 37-40: the base of the key character, by its own case
key_shift_of(key_char) == IF isupper(key_char) THEN ord_A ELSE ord_a

\* a base that ignores the case of the ciphertext character
char_shift_upper_only(char) == ord_A

\* lines 30-33: the base of the ciphertext character
char_shift_of(char) == IF isupper(char) THEN ord_A ELSE ord_a

\* line 43
decrypt_char(char, key_char) ==
    ((char - char_shift_of(char) - (key_char - key_shift_of(key_char))) % AlphabetSize)
        + char_shift_of(char)

\* a pass-through that forgets the character
pass_through_dropped(out, char) == out

\* line 26
pass_through(out, char) == Append(out, char)

\* lines 24-46; p is the Python index i, out the plaintext built so far.
\* key[i % key_length] with key_length = 0 raises ZeroDivisionError.
RECURSIVE decrypt_from(_, _, _, _)
decrypt_from(ct, k, p, out) ==
    IF p >= Len(ct) THEN [err |-> "none", val |-> out]
    ELSE LET char == ct[p + 1] IN
         IF ~isalpha(char) THEN decrypt_from(ct, k, p + 1, pass_through(out, char))
         ELSE IF Len(k) = 0 THEN [err |-> "ZeroDivisionError", val |-> <<>>]
         ELSE decrypt_from(ct, k, p + 1,
                           Append(out, decrypt_char(char, k[(p % Len(k)) + 1])))

\* lines 19-46
vigenere_decrypt(ct, k) == decrypt_from(ct, k, 0, <<>>)

(***************************************************************************)
(* str.find and str.count                                                  *)
(***************************************************************************)
NotFound == -1

\* s[p:p+len(sub)] == sub, p a Python index
matches_at(s, sub, p) ==
    /\ p >= 0
    /\ p + Len(sub) <= Len(s)
    /\ \A j \in 1..Len(sub) : s[p + j] = sub[j]

\* s.find(sub, start): the lowest index >= start where sub occurs, or -1
str_find(s, sub, start) ==
    LET hits == {p \in start..(Len(s) - Len(sub)) : matches_at(s, sub, p)}
    IN IF hits = {} THEN NotFound
       ELSE CHOOSE p \in hits : \A q \in hits : p <= q

RECURSIVE count_from(_, _, _)
count_from(s, sub, start) ==
    LET p == str_find(s, sub, start)
    IN IF p = NotFound THEN 0 ELSE 1 + count_from(s, sub, p + Len(sub))

RECURSIVE count_overlapping_from(_, _, _)
count_overlapping_from(s, sub, start) ==
    LET p == str_find(s, sub, start)
    IN IF p = NotFound THEN 0 ELSE 1 + count_overlapping_from(s, sub, p + 1)

\* a count that restarts the scan one character after each occurrence
str_count_overlapping(s, sub) == count_overlapping_from(s, sub, 0)

\* s.count(sub): occurrences found scanning left to right, each scan
\* restarting after the end of the previous occurrence
str_count(s, sub) == count_from(s, sub, 0)

(***************************************************************************)
(* score_text                                                              *)
(***************************************************************************)
\* lines 99-103, in hundredths of a percent, indexed 'A'..'Z'
eng_freq_table ==
    << 812, 149, 271, 432, 1202, 230, 203, 592, 731, 10, 69, 398, 261,
       695, 768, 182, 11, 602, 628, 910, 288, 111, 209, 17, 211, 7 >>

eng_freq(letter) == eng_freq_table[letter - ord_A + 1]

\* line 121
common_words ==
    << <<84, 72, 69>>,      \* THE
       <<65, 78, 68>>,      \* AND
       <<84, 72, 65, 84>>,  \* THAT
       <<72, 65, 86, 69>>,  \* HAVE
       <<70, 79, 82>>,      \* FOR
       <<78, 79, 84>>,      \* NOT
       <<87, 73, 84, 72>>,  \* WITH
       <<89, 79, 85>>,      \* YOU
       <<84, 72, 73, 83>>,  \* THIS
       <<66, 85, 84>> >>    \* BUT

WordBonus == 5

\* float('inf') and a finite score num/den
Inf == [inf |-> TRUE, num |-> 0, den |-> 1]
Finite(n, d) == [inf |-> FALSE, num |-> n, den |-> d]

\* a < b on scores
score_less(a, b) ==
    IF a.inf THEN FALSE
    ELSE IF b.inf THEN TRUE
    ELSE a.num * b.den < b.num * a.den

\* line 106: the count of one upper-cased letter
letter_count(t, letter) ==
    Cardinality({p \in 1..Len(t) : isalpha(t[p]) /\ upper(t[p]) = letter})

\* line 107
total_letters(t) == Cardinality({p \in 1..Len(t) : isalpha(t[p])})

Abs(x) == IF x < 0 THEN -x ELSE x

RECURSIVE SumSeq(_)
SumSeq(s) == IF s = <<>> THEN 0 ELSE Head(s) + SumSeq(Tail(s))

\* lines 113-118, times 100 * total_letters:
\* abs(freq - count / total * 100) summed over the 26 letters
deviation(t) ==
    LET n == total_letters(t)
        dev(letter) == Abs(eng_freq(letter) * n - 10000 * letter_count(t, letter))
    IN SumSeq([k \in 1..AlphabetSize |-> dev(ord_A + k - 1)])

\* lines 122-124
word_count(t) ==
    LET hits(w) == str_count(upper_str(t), common_words[w])
    IN SumSeq([w \in 1..Len(common_words) |-> hits(w)])

\* lines 96-127
score_text(t) ==
    LET n == total_letters(t)
    IN IF n = 0 THEN Inf
       ELSE Finite(deviation(t) - word_count(t) * WordBonus * 100 * n, 100 * n)

(***************************************************************************)
(* find_key                                                                *)
(***************************************************************************)
NumShifts == 26
None == -1

\* s[start::step]
stride(s, start, step) ==
    LET n == IF Len(s) > start THEN (Len(s) - start + step - 1) \div step ELSE 0
    IN [k \in 1..n |-> s[start + 1 + (k - 1) * step]]

\* a stream taken over the letters only: non-letters consume no position
chars_of_letters_only(ct, offset, klen) == stride(SelectSeq(ct, isalpha), offset, klen)

\* line 135: ciphertext[i::key_length], positions counted over all characters
chars_at(ct, offset, klen) == stride(ct, offset, klen)

\* a shift applied in the encrypting direction
caesar_forward(c, sh) == ((upper(c) - ord_A + sh) % AlphabetSize) + ord_A

\* line 143, one character
caesar(c, sh) == ((upper(c) - ord_A - sh) % AlphabetSize) + ord_A

\* line 143: the letters of chars, upper-cased and shifted back by sh
decrypt_stream(chars, sh) ==
    LET letters == SelectSeq(chars, isalpha)
    IN [k \in 1..Len(letters) |-> caesar(letters[k], sh)]

(***************************************************************************)
(* find_key_length                                                         *)
(***************************************************************************)
MinSeqLen == 3
EndSeqLen == 12
DefaultMaxLength == 20
TopFactors == 5

Min(a, b) == IF a < b THEN a ELSE b

\* a dict in insertion order: a sequence of <<key, value>>
dict_has(d, k) == \E j \in 1..Len(d) : d[j][1] = k
dict_get(d, k) == LET j == CHOOSE x \in 1..Len(d) : d[x][1] = k IN d[j][2]

\* d[k] += n for a key already in d
RECURSIVE dict_bump(_, _, _)
dict_bump(d, k, n) ==
    IF d = <<>> THEN <<>>
    ELSE (IF Head(d)[1] = k THEN << <<k, Head(d)[2] + n>> >> ELSE <<Head(d)>>)
         \o dict_bump(Tail(d), k, n)

\* lines 66-69 and 76-79: d[k] += n, or d[k] = n for a new key
dict_add(d, k, n) ==
    IF dict_has(d, k) THEN dict_bump(d, k, n) ELSE Append(d, <<k, n>>)

\* a slice one character short
slice_short(s, start, len) == SubSeq(s, start + 1, Min(start + len - 1, Len(s)))

\* line 54: s[start:start+len]
slice(s, start, len) == SubSeq(s, start + 1, Min(start + len, Len(s)))

\* lines 57-62: every position of seq, found by find(seq, pos + 1) from pos = -1
RECURSIVE find_all(_, _, _)
find_all(ct, seq, pos) ==
    LET p == str_find(ct, seq, pos + 1)
    IN IF p = NotFound THEN <<>> ELSE <<p>> \o find_all(ct, seq, p)

\* lines 64-65: the gaps between successive positions
gaps_of(distances) ==
    [j \in 1..(Len(distances) - 1) |-> distances[j + 1] - distances[j]]

\* lines 54-65: the gaps one start position observes
seq_gaps(ct, length, start) ==
    LET seq == slice(ct, start, length)
    IN IF str_count(ct, seq) > 1 THEN gaps_of(find_all(ct, seq, -1)) ELSE <<>>

\* line 53: the starts 0 .. len(ciphertext) - length - 1 of one length
RECURSIVE gaps_from_start(_, _, _)
gaps_from_start(ct, length, start) ==
    IF start >= Len(ct) - length THEN <<>>
    ELSE seq_gaps(ct, length, start) \o gaps_from_start(ct, length, start + 1)

\* line 52: the lengths 3 .. 11
RECURSIVE gaps_from_length(_, _)
gaps_from_length(ct, length) ==
    IF length >= EndSeqLen THEN <<>>
    ELSE gaps_from_start(ct, length, 0) \o gaps_from_length(ct, length + 1)

\* every entry of d2 added to d1, in d2's order
RECURSIVE dict_merge(_, _)
dict_merge(d1, d2) ==
    IF d2 = <<>> THEN d1
    ELSE dict_merge(dict_add(d1, Head(d2)[1], Head(d2)[2]), Tail(d2))

\* the dict after d[k] += n for every <<k, n>> of items, in order. Keys keep
\* the order of their first update and the additions associate, so the two
\* halves are counted apart and merged.
RECURSIVE dict_of(_)
dict_of(items) ==
    IF items = <<>> THEN <<>>
    ELSE IF Len(items) = 1 THEN dict_add(<<>>, items[1][1], items[1][2])
    ELSE LET half == Len(items) \div 2
         IN dict_merge(dict_of(SubSeq(items, 1, half)),
                       dict_of(SubSeq(items, half + 1, Len(items))))

\* lines 51-69: counts[dist] += 1 for every gap, in the order of the loops
count_distances(ct) ==
    LET gaps == gaps_from_length(ct, MinSeqLen)
    IN dict_of([j \in 1..Len(gaps) |-> <<gaps[j], 1>>])

\* line 74: the exclusive end of range(2, min(dist, max_length + 1))
factor_stop(dist, maxlen) == Min(dist, maxlen + 1)

\* lines 74-75: the i of range(2, stop) that divide dist, ascending
divisors(dist, stop) ==
    SelectSeq([k \in 1..(stop - 2) |-> k + 1], LAMBDA f : dist % f = 0)

\* lines 73-79: the updates factors[i] += count of the distances from the
\* j-th on, in the order of the loops
RECURSIVE factor_updates(_, _, _)
factor_updates(cnt, j, maxlen) ==
    IF j > Len(cnt) THEN <<>>
    ELSE LET div == divisors(cnt[j][1], factor_stop(cnt[j][1], maxlen))
         IN [k \in 1..Len(div) |-> <<div[k], cnt[j][2]>>]
            \o factor_updates(cnt, j + 1, maxlen)

\* lines 72-79
count_factors(cnt, maxlen) == dict_of(factor_updates(cnt, 1, maxlen))

\* line 82: sorted(items, key = weight, reverse = True); the sort is stable,
\* so items of equal weight keep their insertion order
RECURSIVE sorted_desc(_)
sorted_desc(d) ==
    IF d = <<>> THEN <<>>
    ELSE LET last == d[Len(d)]
             front == sorted_desc(SubSeq(d, 1, Len(d) - 1))
             ahead == Cardinality({j \in 1..Len(front) : front[j][2] >= last[2]})
         IN SubSeq(front, 1, ahead) \o <<last>> \o SubSeq(front, ahead + 1, Len(front))

\* line 84
top_lengths(fac) ==
    LET srt == sorted_desc(fac)
    IN [j \in 1..Min(TopFactors, Len(srt)) |-> srt[j][1]]

(***************************************************************************)
(* Inputs.                                                                 *)
(***************************************************************************)
\* 'A' 'b' 'Z' ','
CipherAlphabet == {65, 98, 90, 44}
\* 'K' 'e' '1'
KeyAlphabet == {75, 101, 49}
\* "Abc, 123!" and "KEY"
AbcText == <<65, 98, 99, 44, 32, 49, 50, 51, 33>>
KEY == <<75, 69, 89>>
\* "KHOOR ZRUOG", "HELLO WORLD", "EBIIL TLOIA"
KHOOR == <<75, 72, 79, 79, 82, 32, 90, 82, 85, 79, 71>>
HELLO == <<72, 69, 76, 76, 79, 32, 87, 79, 82, 76, 68>>
EBIIL == <<69, 66, 73, 73, 76, 32, 84, 76, 79, 73, 65>>
\* 'T' 'h' 'E' ' '
FindKeyAlphabet == {84, 104, 69, 32}
\* 'A' 'B'
KasiskiAlphabet == {65, 66}
\* 'T' 'h' 'A'
ScoreAlphabet == {84, 104, 65}

\* texts with the other common words, with non-letters and without letters
ScoreTexts ==
    { <<84, 72, 69>>,   \* "THE"
      <<84, 72, 65, 84, 72, 69>>,   \* "THATHE"
      <<116, 104, 101, 32, 65, 110, 100>>,   \* "the And"
      <<78, 79, 84, 32, 87, 73, 84, 72, 32, 89, 79, 85>>,   \* "NOT WITH YOU"
      <<84, 72, 73, 83, 32, 66, 85, 84, 32, 70, 79, 82>>,   \* "THIS BUT FOR"
      <<72, 65, 86, 69, 32, 84, 72, 65, 84>>,   \* "HAVE THAT"
      <<49, 44, 32, 50>>,   \* "1, 2"
      <<84, 72, 69, 84, 72, 69>>,   \* "THETHE"
      <<72, 101, 108, 108, 111, 44, 32, 87, 111, 114, 108, 100, 33>> } \* "Hello, World!"

MaxFindKeyText == 3   \* find_key: longest enumerated ciphertext
MaxFindKeyLen == 2    \* find_key: largest enumerated key_length
MaxKasiskiText == 8   \* find_key_length: longest enumerated ciphertext
MaxScoreText == 7     \* score_text: longest enumerated text

MaxLengths == {3, 4, DefaultMaxLength}

(***************************************************************************)
(* vigenere_decrypt(ciphertext, key)                                       *)
(***************************************************************************)
InitDecrypt ==
    /\ pc = "vigenere_decrypt"
    /\ \/ /\ ciphertext \in Strings(CipherAlphabet, MaxCipherLen)
          /\ key \in Strings(KeyAlphabet, MaxKeyLen)
       \/ /\ ciphertext = AbcText
          /\ key = KEY
    /\ key_length = 0 /\ max_length = 0
    /\ text = <<>> /\ plaintext = <<>> /\ err = "none" /\ i = 0 /\ shift = 0
    /\ best_score = Inf /\ best_shift = None /\ decrypted = <<>>
    /\ cur_decrypted = <<>> /\ counts = <<>> /\ factors = <<>>
    /\ lengths = <<>> /\ score = Inf

\* lines 19-46, a call that returns
Decrypt ==
    /\ pc = "vigenere_decrypt"
    /\ vigenere_decrypt(ciphertext, key).err = "none"
    /\ plaintext' = vigenere_decrypt(ciphertext, key).val
    /\ pc' = "decrypt_returned"
    /\ UNCHANGED <<ciphertext, key, key_length, max_length, text, err, i, shift,
                   best_score, best_shift, decrypted, cur_decrypted, counts,
                   factors, lengths, score>>

\* line 36 with an empty key: i % 0
DecryptRaises ==
    /\ pc = "vigenere_decrypt"
    /\ vigenere_decrypt(ciphertext, key).err # "none"
    /\ err' = vigenere_decrypt(ciphertext, key).err
    /\ pc' = "decrypt_raised"
    /\ UNCHANGED <<ciphertext, key, key_length, max_length, text, plaintext, i,
                   shift, best_score, best_shift, decrypted, cur_decrypted,
                   counts, factors, lengths, score>>

NextDecrypt == Decrypt \/ DecryptRaises

SpecDecrypt == InitDecrypt /\ [][NextDecrypt]_vars

(***************************************************************************)
(* score_text(text)                                                        *)
(***************************************************************************)
InitScore ==
    /\ pc = "score_text"
    /\ text \in Strings(ScoreAlphabet, MaxScoreText) \cup ScoreTexts
    /\ ciphertext = <<>> /\ key = <<>> /\ key_length = 0 /\ max_length = 0
    /\ plaintext = <<>> /\ err = "none" /\ i = 0 /\ shift = 0
    /\ best_score = Inf /\ best_shift = None /\ decrypted = <<>>
    /\ cur_decrypted = <<>> /\ counts = <<>> /\ factors = <<>>
    /\ lengths = <<>> /\ score = Inf

\* lines 96-127
ScoreText ==
    /\ pc = "score_text"
    /\ score' = score_text(text)
    /\ pc' = "score_returned"
    /\ UNCHANGED <<ciphertext, key, key_length, max_length, text, plaintext, err,
                   i, shift, best_score, best_shift, decrypted, cur_decrypted,
                   counts, factors, lengths>>

NextScore == ScoreText

SpecScore == InitScore /\ [][NextScore]_vars

(***************************************************************************)
(* find_key_length(ciphertext, max_length)                                 *)
(***************************************************************************)
InitKeyLength ==
    /\ pc = "find_key_length"
    /\ ciphertext \in Strings(KasiskiAlphabet, MaxKasiskiText)
    /\ max_length \in MaxLengths
    /\ key = <<>> /\ key_length = 0
    /\ text = <<>> /\ plaintext = <<>> /\ err = "none" /\ i = 0 /\ shift = 0
    /\ best_score = Inf /\ best_shift = None /\ decrypted = <<>>
    /\ cur_decrypted = <<>> /\ counts = <<>> /\ factors = <<>>
    /\ lengths = <<>> /\ score = Inf

\* lines 51-69
CountDistances ==
    /\ pc = "find_key_length"
    /\ counts' = count_distances(ciphertext)
    /\ pc' = "counted"
    /\ UNCHANGED <<ciphertext, key, key_length, max_length, text, plaintext, err,
                   i, shift, best_score, best_shift, decrypted, cur_decrypted,
                   factors, lengths, score>>

\* lines 72-79
CountFactors ==
    /\ pc = "counted"
    /\ factors' = count_factors(counts, max_length)
    /\ pc' = "factored"
    /\ UNCHANGED <<ciphertext, key, key_length, max_length, text, plaintext, err,
                   i, shift, best_score, best_shift, decrypted, cur_decrypted,
                   counts, lengths, score>>

\* lines 82-84
ReturnLengths ==
    /\ pc = "factored"
    /\ lengths' = top_lengths(factors)
    /\ pc' = "lengths_returned"
    /\ UNCHANGED <<ciphertext, key, key_length, max_length, text, plaintext, err,
                   i, shift, best_score, best_shift, decrypted, cur_decrypted,
                   counts, factors, score>>

NextKeyLength == CountDistances \/ CountFactors \/ ReturnLengths

SpecKeyLength == InitKeyLength /\ [][NextKeyLength]_vars

(***************************************************************************)
(* find_key(ciphertext, key_length), then main's vigenere_decrypt with the *)
(* key it returned                                                         *)
(***************************************************************************)
InitFindKey ==
    /\ pc = "find_key"
    /\ \/ /\ ciphertext \in Strings(FindKeyAlphabet, MaxFindKeyText)
          /\ key_length \in 1..MaxFindKeyLen
       \/ /\ ciphertext = KHOOR
          /\ key_length = 1
    /\ key = <<>> /\ max_length = 0
    /\ text = <<>> /\ plaintext = <<>> /\ err = "none" /\ i = 0 /\ shift = 0
    /\ best_score = Inf /\ best_shift = None /\ decrypted = <<>>
    /\ cur_decrypted = <<>> /\ counts = <<>> /\ factors = <<>>
    /\ lengths = <<>> /\ score = Inf

\* lines 141-150: one iteration of the shift loop
TryShift ==
    /\ pc = "find_key"
    /\ i < key_length
    /\ shift < NumShifts
    /\ LET stream == decrypt_stream(chars_at(ciphertext, i, key_length), shift)
           sc == score_text(stream)
       IN IF score_less(sc, best_score)
          THEN /\ best_score' = sc
               /\ best_shift' = shift
               /\ cur_decrypted' = stream
          ELSE UNCHANGED <<best_score, best_shift, cur_decrypted>>
    /\ shift' = shift + 1
    /\ UNCHANGED <<pc, ciphertext, key, key_length, max_length, text, plaintext,
                   err, i, decrypted, counts, factors, lengths, score>>

\* line 153, then lines 133-139 of the next offset
AppendKey ==
    /\ pc = "find_key"
    /\ i < key_length
    /\ shift = NumShifts
    /\ best_shift # None
    /\ key' = Append(key, best_shift + ord_A)
    /\ decrypted' = Append(decrypted, cur_decrypted)
    /\ i' = i + 1
    /\ shift' = 0
    /\ best_score' = Inf
    /\ best_shift' = None
    /\ cur_decrypted' = <<>>
    /\ UNCHANGED <<pc, ciphertext, key_length, max_length, text, plaintext, err,
                   counts, factors, lengths, score>>

\* line 153 with best_shift still None: None + ord('A')
AppendKeyRaises ==
    /\ pc = "find_key"
    /\ i < key_length
    /\ shift = NumShifts
    /\ best_shift = None
    /\ err' = "TypeError"
    /\ pc' = "find_key_raised"
    /\ UNCHANGED <<ciphertext, key, key_length, max_length, text, plaintext, i,
                   shift, best_score, best_shift, decrypted, cur_decrypted,
                   counts, factors, lengths, score>>

\* line 155
ReturnKey ==
    /\ pc = "find_key"
    /\ i = key_length
    /\ pc' = "key_returned"
    /\ UNCHANGED <<ciphertext, key, key_length, max_length, text, plaintext, err,
                   i, shift, best_score, best_shift, decrypted, cur_decrypted,
                   counts, factors, lengths, score>>

\* line 245
DecryptWithKey ==
    /\ pc = "key_returned"
    /\ vigenere_decrypt(ciphertext, key).err = "none"
    /\ plaintext' = vigenere_decrypt(ciphertext, key).val
    /\ pc' = "decrypted"
    /\ UNCHANGED <<ciphertext, key, key_length, max_length, text, err, i, shift,
                   best_score, best_shift, decrypted, cur_decrypted, counts,
                   factors, lengths, score>>

NextFindKey == TryShift \/ AppendKey \/ AppendKeyRaises \/ ReturnKey \/ DecryptWithKey

SpecFindKey == InitFindKey /\ [][NextFindKey]_vars

(***************************************************************************)
(* The four entry points together.                                         *)
(***************************************************************************)
Init == InitDecrypt \/ InitScore \/ InitKeyLength \/ InitFindKey

Next == NextDecrypt \/ NextScore \/ NextKeyLength \/ NextFindKey

Spec == Init /\ [][Next]_vars

(***************************************************************************)
(* Properties.                                                             *)
(***************************************************************************)
\* the 0..25 index of a letter, taken in its own case
value(c) == IF isupper(c) THEN c - 65 ELSE c - 97
base(c) == IF isupper(c) THEN 65 ELSE 97
IsAlphaStr(s) == \A p \in 1..Len(s) : isalpha(s[p])
Range(s) == {s[p] : p \in 1..Len(s)}

\* C1: with a non-empty alphabetic key, the letter at position p (counted
\* over all characters) is decrypted with key[p mod len(key)] to
\* base + ((value(c) - value(key_char)) mod 26), in the case of the
\* ciphertext letter; "Abc, 123!" under "KEY" becomes "Qxe, 123!".
C1_LetterFormula ==
    (pc = "decrypt_returned" /\ key # <<>> /\ IsAlphaStr(key)) =>
        /\ \A p \in 0..(Len(ciphertext) - 1) :
              isalpha(ciphertext[p + 1]) =>
                 LET c == ciphertext[p + 1]
                     kc == key[(p % Len(key)) + 1]
                 IN /\ p + 1 <= Len(plaintext)
                    /\ plaintext[p + 1] = base(c) + ((value(c) - value(kc)) % 26)
                    /\ isupper(plaintext[p + 1]) = isupper(c)
                    /\ islower(plaintext[p + 1]) = islower(c)
        /\ (ciphertext = AbcText /\ key = KEY) =>
              plaintext = <<81, 120, 101, 44, 32, 49, 50, 51, 33>>

\* ",b" under "Ke": the comma consumed 'K', so 'b' is decrypted with 'e' to 'x'
C1_Witness ==
    /\ pc = "decrypt_returned"
    /\ ciphertext = <<44, 98>>
    /\ key = <<75, 101>>
    /\ plaintext = <<44, 120>>

\* C2: with a non-empty key the call returns, the output is as long as the
\* ciphertext, and every non-alphabetic character is unchanged in place.
C2_LengthAndPassThrough ==
    /\ (key # <<>>) => pc # "decrypt_raised"
    /\ (pc = "decrypt_returned" /\ key # <<>>) =>
          /\ Len(plaintext) = Len(ciphertext)
          /\ \A p \in 1..Len(ciphertext) :
                ~isalpha(ciphertext[p]) => plaintext[p] = ciphertext[p]

\* "A,b" under "1K": a key with a non-alphabetic character, a comma in the text
C2_Witness ==
    /\ pc = "decrypt_returned"
    /\ ciphertext = <<65, 44, 98>>
    /\ key = <<49, 75>>
    /\ Len(plaintext) = 3
    /\ plaintext[2] = 44

\* C4: with an empty key vigenere_decrypt fails for every ciphertext and
\* never returns a plaintext.
C4_EmptyKeyAlwaysFails ==
    (key = <<>> /\ pc # "vigenere_decrypt") => pc = "decrypt_raised"

\* the forward shift of the claim: the inverse of the decrypt step
encrypt(P, K) ==
    [p \in 1..Len(P) |->
        IF isalpha(P[p])
        THEN base(P[p]) + ((value(P[p]) + value(K[((p - 1) % Len(K)) + 1])) % 26)
        ELSE P[p]]

\* the key whose letters are the mod-26 negations of K's letters
neg_key(K) == [j \in 1..Len(K) |-> base(K[j]) + ((0 - value(K[j])) % 26)]

\* C6: for an alphabetic-only text and a non-empty alphabetic key,
\* decrypt(encrypt(P, K), K) = P; decrypting with K and then with the
\* negated key gives the original text back.
C6_RoundTrip ==
    (pc = "decrypt_returned" /\ IsAlphaStr(ciphertext) /\ key # <<>> /\ IsAlphaStr(key)) =>
        /\ vigenere_decrypt(encrypt(ciphertext, key), key)
              = [err |-> "none", val |-> ciphertext]
        /\ encrypt(plaintext, key) = ciphertext
        /\ vigenere_decrypt(plaintext, neg_key(key))
              = [err |-> "none", val |-> ciphertext]

\* "AbZ" under "Ke" decrypts to "QxP", which is not the ciphertext
C6_Witness ==
    /\ pc = "decrypt_returned"
    /\ ciphertext = <<65, 98, 90>>
    /\ key = <<75, 101>>
    /\ plaintext = <<81, 120, 80>>

\* some substring of length >= 3 starts at two different positions
HasRepeat(ct) ==
    \E len \in 3..Len(ct) : \E p, q \in 0..(Len(ct) - len) :
        p < q /\ matches_at(ct, SubSeq(ct, p + 1, p + len), q)

\* C7: a ciphertext in which no substring of length >= 3 occurs more than
\* once yields no key-length candidate, for any max_length.
C7_NoRepeatNoCandidate ==
    (pc = "lengths_returned" /\ ~HasRepeat(ciphertext)) => lengths = <<>>

\* "AABBAABB" minus its last two characters: six characters, no repeat
C7_Witness ==
    /\ pc = "lengths_returned"
    /\ ciphertext = <<65, 65, 66, 66, 65, 65>>
    /\ ~HasRepeat(ciphertext)
    /\ lengths = <<>>

\* the weight the claim gives factor f: the counts of the gaps f divides
weight_due(cnt, f) ==
    SumSeq([j \in 1..Len(cnt) |-> IF cnt[j][1] % f = 0 THEN cnt[j][2] ELSE 0])

\* C8: every gap g with count n adds n to the weight of every divisor f of g
\* with 2 <= f <= min(g, max_length), g itself included; a ciphertext whose
\* only gap is g, 3 <= g <= max_length, has g among the candidates.
C8_GapIsItsOwnFactor ==
    /\ pc \in {"factored", "lengths_returned"} =>
          \A j \in 1..Len(counts) :
             \A f \in 2..Min(counts[j][1], max_length) :
                counts[j][1] % f = 0 =>
                   /\ dict_has(factors, f)
                   /\ dict_get(factors, f) = weight_due(counts, f)
    /\ (pc = "lengths_returned" /\ Len(counts) = 1
           /\ counts[1][1] >= 3 /\ counts[1][1] <= max_length) =>
          counts[1][1] \in Range(lengths)

\* the start positions at which word w matches the upper-cased text
match_starts(t, w) ==
    {p \in 0..(Len(t) - Len(w)) : matches_at(upper_str(t), w, p)}

\* the most occurrences of a word of length len, among the starts S, that
\* do not overlap one another
MaxDisjoint(S, len) ==
    LET ok(T) == \A a, b \in T : a # b => (a - b >= len \/ b - a >= len)
        sizes == {Cardinality(T) : T \in {U \in SUBSET S : ok(U)}}
    IN CHOOSE n \in sizes : \A m \in sizes : m <= n

\* C9, as stated: the bonus is 5 for every start position at which one of
\* the ten words matches, overlapping occurrences included.
C9_EveryOccurrenceCounts ==
    (pc = "score_returned" /\ total_letters(text) > 0) =>
        score = Finite(deviation(text)
                         - 5 * 100 * total_letters(text)
                             * SumSeq([w \in 1..Len(common_words) |->
                                          Cardinality(match_starts(text, common_words[w]))]),
                       100 * total_letters(text))

\* C9, amended: per word, the bonus is 5 for every occurrence in a largest
\* set of occurrences of that word that do not overlap one another; a text
\* without letters scores +infinity.
C9_DisjointOccurrencesCount ==
    /\ (pc = "score_returned" /\ total_letters(text) > 0) =>
          score = Finite(deviation(text)
                           - 5 * 100 * total_letters(text)
                               * SumSeq([w \in 1..Len(common_words) |->
                                            MaxDisjoint(match_starts(text, common_words[w]),
                                                        Len(common_words[w]))]),
                         100 * total_letters(text))
    /\ (pc = "score_returned" /\ total_letters(text) = 0) => score = Inf

\* "ThAThAT": THAT matches at 0 and at 3, and one occurrence is counted
C9_Witness ==
    /\ pc = "score_returned"
    /\ text = <<84, 104, 65, 84, 104, 65, 84>>
    /\ Cardinality(match_starts(text, common_words[3])) = 2
    /\ score = Finite(deviation(text) - 5 * 100 * 7, 700)

\* the offset stream has no letter
NoLetters(ct, offset, klen) == SelectSeq(chars_at(ct, offset, klen), isalpha) = <<>>

\* C3: find_key succeeds for every ciphertext and key_length >= 1 and returns
\* key_length uppercase letters, 'A' for an offset whose stream has no letter.
C3_FindKeyAlwaysSucceeds ==
    /\ pc # "find_key_raised"
    /\ pc \in {"key_returned", "decrypted"} =>
          /\ Len(key) = key_length
          /\ \A j \in 1..Len(key) : isupper(key[j])
          /\ \A j \in 1..Len(key) :
                NoLetters(ciphertext, j - 1, key_length) => key[j] = 65

\* C5, as stated: "KHOOR ZRUOG" with key length 1 recovers "D" and decrypts
\* to "HELLO WORLD".
C5_KhoorRecoversD ==
    (pc = "decrypted" /\ ciphertext = KHOOR /\ key_length = 1) =>
        /\ key = <<68>>
        /\ plaintext = HELLO

\* C5, amended: "KHOOR ZRUOG" with key length 1 recovers "G" (shift 6 scores
\* lower than shift 3) and decrypts to "EBIIL TLOIA"; it is the key "D" that
\* decrypts the ciphertext to "HELLO WORLD".
C5_KhoorRecoversG ==
    /\ (pc = "decrypted" /\ ciphertext = KHOOR /\ key_length = 1) =>
          /\ key = <<71>>
          /\ plaintext = EBIIL
          /\ score_less(score_text(decrypt_stream(ciphertext, 6)),
                        score_text(decrypt_stream(ciphertext, 3)))
    /\ ciphertext = KHOOR =>
          vigenere_decrypt(ciphertext, <<68>>) = [err |-> "none", val |-> HELLO]

C5_Witness ==
    /\ pc = "decrypted"
    /\ ciphertext = KHOOR
    /\ key_length = 1
    /\ key = <<71>>

\* the upper-cased letters of s at the Python positions congruent to offset
letters_at(s, offset, klen) ==
    LET Q == {q \in 0..(Len(s) - 1) : q % klen = offset /\ isalpha(s[q + 1])}
        nth(r) == CHOOSE q \in Q : Cardinality({m \in Q : m < q}) = r - 1
    IN [r \in 1..Cardinality(Q) |-> upper(s[nth(r) + 1])]

\* C10: the letter at position p is in the stream of offset p mod L, at
\* index p div L, and vigenere_decrypt decrypts it with key[p mod L]: the
\* upper-cased letters of vigenere_decrypt(ciphertext, find_key(ciphertext, L))
\* at the positions congruent to an offset are the stream that scored best
\* for that offset.
C10_SameAlignment ==
    /\ key_length >= 1 =>
          \A p \in 0..(Len(ciphertext) - 1) :
             isalpha(ciphertext[p + 1]) =>
                LET stream == chars_at(ciphertext, p % key_length, key_length)
                IN /\ (p \div key_length) + 1 <= Len(stream)
                   /\ stream[(p \div key_length) + 1] = ciphertext[p + 1]
    /\ pc = "decrypted" =>
          /\ Len(decrypted) = key_length
          /\ \A offset \in 0..(key_length - 1) :
                letters_at(plaintext, offset, key_length) = decrypted[offset + 1]
          /\ \A p \in 0..(Len(ciphertext) - 1) :
                isalpha(ciphertext[p + 1]) =>
                   upper(plaintext[p + 1])
                      = ((upper(ciphertext[p + 1]) - 65
                            - (key[(p % key_length) + 1] - 65)) % 26) + 65

\* " hT" with key length 2: the space consumed offset 0, so 'h' is in the
\* stream of offset 1 and 'T' in the stream of offset 0; each becomes 'E'
C10_Witness ==
    /\ pc = "decrypted"
    /\ ciphertext = <<32, 104, 84>>
    /\ key_length = 2
    /\ decrypted = << <<69>>, <<69>> >>
    /\ plaintext = <<32, 101, 69>>

====
